---- MODULE Spec2Model ----
(***************************************************************************)
(* Model of the picotrx4m firmware: the pulse decoder / freshness watchdog *)
(* of src/src/receiver.rs and the LED frame writer / PIO encoder of        *)
(* src/src/lights.rs.                                                      *)
(*                                                                         *)
(* Spec      the receiver: main context (initialize_receiver, the polling  *)
(*           reads), the IO_IRQ_BANK0 handler one statement per step, and  *)
(*           the hardware it talks to (timer, PWM counters, edge flags).   *)
(***************************************************************************)
EXTENDS Integers, Sequences, FiniteSets, TLC

VARIABLES
    \* ---- receiver.rs: main context ----
    mpc,          \* position of main in initialize_receiver / the loop
    polled,       \* the last value read by main's println! (main.rs:116-121)
    \* ---- receiver.rs: hardware ----
    now,          \* reading of the 1 MHz TIMER (microseconds since reset)
    level,        \* input level of each pin
    edgeLow,      \* latched EdgeLow interrupt flag of each pin
    counter,      \* PWM slice counters (16 bit), steering and throttle
    irqUnmasked,  \* NVIC mask bit of IO_IRQ_BANK0
    \* ---- receiver.rs: statics ----
    STEERING,
    THROTTLE,
    LAST_UPDATE,  \* TimerPair: [timer : BOOLEAN (Some/None), last_update]
    GLOBAL_PINS,  \* "None" / "Some"
    GLOBALS,      \* the handler's static mut: "None" / "Some"
    \* ---- receiver.rs: the interrupt handler ----
    ipc,          \* position inside IO_IRQ_BANK0 ("idle" = not running)
    count,        \* the handler's local `count`
    \* ---- environment ----
    scn,          \* the scenario the environment plays: "widths" or "watchdog"
    hist,         \* history of what the environment did; never read by the code
    \* ---- lights.rs ----
    tx,           \* the TX FIFO of the state machine (Tx<(PIO0, SM0)>)
    writer,       \* main inside Leds::write: [pc, i, leds, calls]
    sm,           \* the PIO state machine: [pc, x, y, osr, shift, pin]
    wave,         \* history of the waveform on the output pin
    lhist,        \* history of the words handed to tx.write
    conv,         \* a fixture colour and the word it converts into
    div,          \* initialize_lights computing the clock divisor
    \* ---- receiver.rs: critical sections and RefCells ----
    csDepth,      \* critical sections entered and not left (interrupts are off if > 0)
    cells         \* borrow flags of the two RefCells: -1 mutable, n > 0 shared

rxVars == <<mpc, polled, now, level, edgeLow, counter, irqUnmasked, STEERING,
            THROTTLE, LAST_UPDATE, GLOBAL_PINS, GLOBALS, ipc, count, scn, hist>>

ledVars == <<tx, writer, sm, wave, lhist>>

pureVars == <<conv, div>>

csVars == <<csDepth, cells>>

nonRx == <<ledVars, pureVars, csVars>>

nonLed == <<rxVars, pureVars, csVars>>

vars == <<rxVars, ledVars, pureVars, csVars>>

-----------------------------------------------------------------------------
(* Bounds of the model *)

\* falling edges the environment produces on the input a scenario is about
MaxEdges == 2
\* timer readings modelled: 0 .. MaxTimeSteps half-timeouts, each and one tick later
MaxTimeSteps == 2

(* Program constants *)

\* MillisDurationU64::millis(100) in ticks of the 1 MHz timer
WatchdogUs == 100000
\* the PWM counter is 16 bit wide (AtomicU16, get_counter() -> u16)
CounterModulus == 65536

Channels == {"steering", "throttle"}
Pins == {"steering", "throttle", "update"}

\* the ticks a counter counts during one high phase (one step of the model);
\* a phase without a step has 0 ticks, the last value is the largest of 16 bits
TickSteps == {50, 1200, 65535}

\* falling edges the environment produces on pin p: scenario "widths" exercises
\* the measured channels, scenario "watchdog" the update pulse and the timer
EdgeBudget(p) ==
    IF scn = "widths"
      THEN (IF p = "steering" THEN MaxEdges ELSE 1)
      ELSE (IF p = "update" THEN MaxEdges ELSE IF p = "steering" THEN 1 ELSE 0)

\* the timer readings at which something may happen
TimePoints ==
    IF scn = "widths"
      THEN {0, WatchdogUs + 1}
      ELSE {k * (WatchdogUs \div 2) + e : k \in 0..MaxTimeSteps, e \in 0..1}

-----------------------------------------------------------------------------
(* receiver.rs: pure parts *)

\* has_watchdog_expired with the comparison written >= instead of >
has_watchdog_expired_ge(pair, current) ==
    IF pair.timer
      THEN (current - pair.last_update) >= WatchdogUs
      ELSE TRUE

\* TimerWatchdog::has_watchdog_expired, on the pair and the timer's reading
has_watchdog_expired(pair, current) ==
    IF pair.timer
      THEN (current - pair.last_update) > WatchdogUs
      ELSE TRUE

\* TimerPair::default()
TimerPairDefault == [timer |-> FALSE, last_update |-> 0]

\* Receiver::steering / Receiver::throttle: an atomic load
steering == STEERING
throttle == THROTTLE

Width(ch) == IF ch = "steering" THEN steering ELSE throttle

-----------------------------------------------------------------------------
(* Initial state: after reset, before main calls initialize_receiver *)

HistInit ==
    [ phase    |-> [c \in Channels |-> 0],   \* ticks counted in the current high phase
      steps    |-> [c \in Channels |-> 0],
      edgeN    |-> [c \in Channels |-> 0],   \* N of the last falling edge
      svcN     |-> [c \in Channels |-> 0],   \* N of the edge being serviced
      pubN     |-> [c \in Channels |-> 0],   \* N of the last edge published
      prevN    |-> [c \in Channels |-> 0],   \* N of the edge published before it
      edges    |-> [p \in Pins |-> 0],
      updSvc   |-> FALSE,                    \* an update edge has been serviced
      svcT     |-> 0,                        \* timer reading at that service
      irqRuns  |-> 0,                        \* handler invocations (saturating at 2)
      takes    |-> 0,                        \* executions of GLOBAL_PINS.take()
      unacked  |-> {},                       \* flags this invocation saw and has not cleared
      leftPending |-> FALSE ]                \* an invocation returned with such a flag

\* no critical section entered, no RefCell borrowed
CellsInit == [LAST_UPDATE |-> 0, GLOBAL_PINS |-> 0, failed |-> FALSE]

CsIdle == csDepth = 0 /\ cells = CellsInit

RxInit(s) ==
    /\ CsIdle
    /\ scn = s
    /\ mpc = "start"
    /\ polled = <<"none", 0>>
    /\ now = 0
    /\ level = [p \in Pins |-> 0]
    /\ edgeLow = [p \in Pins |-> FALSE]
    /\ counter = [c \in Channels |-> 0]
    /\ irqUnmasked = FALSE
    /\ STEERING = 0
    /\ THROTTLE = 0
    /\ LAST_UPDATE = TimerPairDefault
    /\ GLOBAL_PINS = "None"
    /\ GLOBALS = "None"
    /\ ipc = "idle"
    /\ count = 0
    /\ hist = HistInit

Sat2(n) == IF n >= 2 THEN 2 ELSE n + 1

-----------------------------------------------------------------------------
(* receiver.rs: main context *)

\* initialize_receiver, lines 131-159: the PWM slices are enabled and the
\* three pins have their EdgeLow interrupt enabled
InitEnable ==
    /\ mpc = "start"
    /\ mpc' = "enabled"
    /\ UNCHANGED <<polled, now, level, edgeLow, counter, irqUnmasked, STEERING,
                   THROTTLE, LAST_UPDATE, GLOBAL_PINS, GLOBALS, ipc, count, hist, scn>>
    /\ UNCHANGED nonRx

\* initialize_receiver, lines 161-174: one critical section
InitInstall ==
    /\ mpc = "enabled"
    /\ mpc' = "installed"
    /\ LAST_UPDATE' = [timer |-> TRUE, last_update |-> 0]
    /\ GLOBAL_PINS' = "Some"
    /\ UNCHANGED <<polled, now, level, edgeLow, counter, irqUnmasked, STEERING,
                   THROTTLE, GLOBALS, ipc, count, hist, scn>>
    /\ UNCHANGED nonRx

\* initialize_receiver, line 178
InitUnmask ==
    /\ mpc = "installed"
    /\ mpc' = "running"
    /\ irqUnmasked' = TRUE
    /\ UNCHANGED <<polled, now, level, edgeLow, counter, STEERING, THROTTLE,
                   LAST_UPDATE, GLOBAL_PINS, GLOBALS, ipc, count, hist, scn>>
    /\ UNCHANGED nonRx

\* main.rs:118 receiver.steering()
ReadSteering ==
    /\ mpc = "running"
    /\ polled' = <<"steering", steering>>
    /\ UNCHANGED <<mpc, now, level, edgeLow, counter, irqUnmasked, STEERING,
                   THROTTLE, LAST_UPDATE, GLOBAL_PINS, GLOBALS, ipc, count, hist, scn>>
    /\ UNCHANGED nonRx

\* main.rs:119 receiver.throttle()
ReadThrottle ==
    /\ mpc = "running"
    /\ polled' = <<"throttle", throttle>>
    /\ UNCHANGED <<mpc, now, level, edgeLow, counter, irqUnmasked, STEERING,
                   THROTTLE, LAST_UPDATE, GLOBAL_PINS, GLOBALS, ipc, count, hist, scn>>
    /\ UNCHANGED nonRx

\* main.rs:120 receiver.has_watchdog_expired(): one critical section
ReadWatchdog ==
    /\ mpc = "running"
    /\ polled' = <<"expired", IF has_watchdog_expired(LAST_UPDATE, now) THEN 1 ELSE 0>>
    /\ UNCHANGED <<mpc, now, level, edgeLow, counter, irqUnmasked, STEERING,
                   THROTTLE, LAST_UPDATE, GLOBAL_PINS, GLOBALS, ipc, count, hist, scn>>
    /\ UNCHANGED nonRx

-----------------------------------------------------------------------------
(* receiver.rs: hardware and environment *)

\* the free-running timer advances to a later reading
TimerTick ==
    /\ \E t \in TimePoints : t > now /\ now' = t
    /\ UNCHANGED <<mpc, polled, level, edgeLow, counter, irqUnmasked, STEERING,
                   THROTTLE, LAST_UPDATE, GLOBAL_PINS, GLOBALS, ipc, count, hist, scn>>
    /\ UNCHANGED nonRx

\* An input goes high.  A measured channel starts its next high phase only
\* after the handler has acknowledged the previous falling edge (the handler's
\* latency is far below the low time of the servo signal).
Rise(p) ==
    /\ level[p] = 0
    /\ hist.edges[p] < EdgeBudget(p)
    /\ p \in Channels => ~edgeLow[p]
    /\ level' = [level EXCEPT ![p] = 1]
    /\ UNCHANGED <<mpc, polled, now, edgeLow, counter, irqUnmasked, STEERING,
                   THROTTLE, LAST_UPDATE, GLOBAL_PINS, GLOBALS, ipc, count, hist, scn>>
    /\ UNCHANGED nonRx

\* InputHighRunning: the slice counts while its input is high (lines 134, 143)
Count(c) ==
    /\ mpc # "start"
    /\ level[c] = 1
    /\ hist.steps[c] = 0
    /\ \E d \in TickSteps :
         /\ counter' = [counter EXCEPT ![c] = (@ + d) % CounterModulus]
         /\ hist' = [hist EXCEPT !.phase[c] = @ + d, !.steps[c] = @ + 1]
    /\ UNCHANGED <<mpc, polled, now, level, edgeLow, irqUnmasked, STEERING,
                   THROTTLE, LAST_UPDATE, GLOBAL_PINS, GLOBALS, ipc, count, scn>>
    /\ UNCHANGED nonRx

\* An input falls: the pin's EdgeLow flag is latched
Fall(p) ==
    /\ level[p] = 1
    /\ level' = [level EXCEPT ![p] = 0]
    /\ edgeLow' = [edgeLow EXCEPT ![p] = TRUE]
    /\ hist' = IF p \in Channels
                 THEN [hist EXCEPT !.edges[p] = @ + 1, !.edgeN[p] = hist.phase[p],
                                   !.phase[p] = 0, !.steps[p] = 0]
                 ELSE [hist EXCEPT !.edges[p] = @ + 1]
    /\ UNCHANGED <<mpc, polled, now, counter, irqUnmasked, STEERING, THROTTLE,
                   LAST_UPDATE, GLOBAL_PINS, GLOBALS, ipc, count, scn>>
    /\ UNCHANGED nonRx

-----------------------------------------------------------------------------
(* receiver.rs: IO_IRQ_BANK0, one statement per step *)

IrqPending == \E p \in Pins : edgeLow[p]

\* the NVIC enters the handler
IrqEnter ==
    /\ ipc = "idle"
    /\ irqUnmasked
    /\ IrqPending
    /\ ipc' = "take"
    /\ hist' = [hist EXCEPT !.irqRuns = Sat2(@)]
    /\ UNCHANGED <<mpc, polled, now, level, edgeLow, counter, irqUnmasked, STEERING,
                   THROTTLE, LAST_UPDATE, GLOBAL_PINS, GLOBALS, count, scn>>
    /\ UNCHANGED nonRx

\* the take without the is_none() test
TakeAlways ==
    /\ GLOBALS' = GLOBAL_PINS
    /\ GLOBAL_PINS' = "None"
    /\ hist' = [hist EXCEPT !.takes = Sat2(@)]

\* lines 72-76: if GLOBALS.is_none() { *GLOBALS = GLOBAL_PINS.borrow(cs).take() }
LazyTake ==
    IF GLOBALS = "None"
      THEN /\ GLOBALS' = GLOBAL_PINS
           /\ GLOBAL_PINS' = "None"
           /\ hist' = [hist EXCEPT !.takes = Sat2(@)]
      ELSE UNCHANGED <<GLOBALS, GLOBAL_PINS, hist>>

IrqTake ==
    /\ ipc = "take"
    /\ LazyTake
    /\ ipc' = "some"
    /\ UNCHANGED <<mpc, polled, now, level, edgeLow, counter, irqUnmasked, STEERING,
                   THROTTLE, LAST_UPDATE, count, scn>>
    /\ UNCHANGED nonRx

\* line 78: if let Some(globals) = GLOBALS
IrqSome ==
    /\ ipc = "some"
    /\ ipc' = IF GLOBALS = "Some" THEN "status_steering" ELSE "idle"
    /\ UNCHANGED <<mpc, polled, now, level, edgeLow, counter, irqUnmasked, STEERING,
                   THROTTLE, LAST_UPDATE, GLOBAL_PINS, GLOBALS, count, hist, scn>>
    /\ UNCHANGED nonRx

AfterChannel(c) == IF c = "steering" THEN "status_throttle" ELSE "status_update"

\* lines 79 / 86: if globals.<c>_pin.interrupt_status(EdgeLow)
IrqStatus(c) ==
    /\ ipc = "status_" \o c
    /\ IF edgeLow[c]
         THEN /\ ipc' = "read_" \o c
              /\ hist' = [hist EXCEPT !.svcN[c] = hist.edgeN[c],
                                      !.unacked = @ \cup {c}]
         ELSE /\ ipc' = AfterChannel(c)
              /\ UNCHANGED hist
    /\ UNCHANGED <<mpc, polled, now, level, edgeLow, counter, irqUnmasked, STEERING,
                   THROTTLE, LAST_UPDATE, GLOBAL_PINS, GLOBALS, count, scn>>
    /\ UNCHANGED nonRx

\* lines 80 / 87: let count = globals.<c>_pwm.get_counter()
IrqRead(c) ==
    /\ ipc = "read_" \o c
    /\ count' = counter[c]
    /\ ipc' = "reset_" \o c
    /\ UNCHANGED <<mpc, polled, now, level, edgeLow, counter, irqUnmasked, STEERING,
                   THROTTLE, LAST_UPDATE, GLOBAL_PINS, GLOBALS, hist, scn>>
    /\ UNCHANGED nonRx

\* set_counter(0) reaching both slices
IrqResetAll(c) ==
    /\ ipc = "reset_" \o c
    /\ counter' = [k \in Channels |-> 0]
    /\ ipc' = "clear_" \o c
    /\ UNCHANGED <<mpc, polled, now, level, edgeLow, irqUnmasked, STEERING,
                   THROTTLE, LAST_UPDATE, GLOBAL_PINS, GLOBALS, count, hist, scn>>
    /\ UNCHANGED nonRx

\* the handler going on without set_counter(0)
IrqNoReset(c) ==
    /\ ipc = "reset_" \o c
    /\ ipc' = "clear_" \o c
    /\ UNCHANGED <<mpc, polled, now, level, edgeLow, counter, irqUnmasked, STEERING,
                   THROTTLE, LAST_UPDATE, GLOBAL_PINS, GLOBALS, count, hist, scn>>
    /\ UNCHANGED nonRx

\* lines 81 / 88: globals.<c>_pwm.set_counter(0)
IrqReset(c) ==
    /\ ipc = "reset_" \o c
    /\ counter' = [counter EXCEPT ![c] = 0]
    /\ ipc' = "clear_" \o c
    /\ UNCHANGED <<mpc, polled, now, level, edgeLow, irqUnmasked, STEERING,
                   THROTTLE, LAST_UPDATE, GLOBAL_PINS, GLOBALS, count, hist, scn>>
    /\ UNCHANGED nonRx

\* the handler going on without clear_interrupt
IrqSkipClear(c) ==
    /\ ipc = "clear_" \o c
    /\ ipc' = "store_" \o c
    /\ UNCHANGED <<mpc, polled, now, level, edgeLow, counter, irqUnmasked, STEERING,
                   THROTTLE, LAST_UPDATE, GLOBAL_PINS, GLOBALS, count, hist, scn>>
    /\ UNCHANGED nonRx

\* lines 82 / 89: globals.<c>_pin.clear_interrupt(EdgeLow)
IrqClear(c) ==
    /\ ipc = "clear_" \o c
    /\ edgeLow' = [edgeLow EXCEPT ![c] = FALSE]
    /\ ipc' = "store_" \o c
    /\ hist' = [hist EXCEPT !.unacked = @ \ {c}]
    /\ UNCHANGED <<mpc, polled, now, level, counter, irqUnmasked, STEERING,
                   THROTTLE, LAST_UPDATE, GLOBAL_PINS, GLOBALS, count, scn>>
    /\ UNCHANGED nonRx

\* the store into the other channel's atomic
StoreOther(c, v) ==
    /\ STEERING' = IF c = "throttle" THEN v ELSE STEERING
    /\ THROTTLE' = IF c = "steering" THEN v ELSE THROTTLE

\* lines 83 / 90: STEERING.store(count, Release) / THROTTLE.store(count, Release)
Store(c, v) ==
    /\ STEERING' = IF c = "steering" THEN v ELSE STEERING
    /\ THROTTLE' = IF c = "throttle" THEN v ELSE THROTTLE

IrqStore(c) ==
    /\ ipc = "store_" \o c
    /\ Store(c, count)
    /\ ipc' = AfterChannel(c)
    /\ hist' = [hist EXCEPT !.prevN[c] = hist.pubN[c], !.pubN[c] = hist.svcN[c]]
    /\ UNCHANGED <<mpc, polled, now, level, edgeLow, counter, irqUnmasked,
                   LAST_UPDATE, GLOBAL_PINS, GLOBALS, count, scn>>
    /\ UNCHANGED nonRx

\* the handler returns: the record of what the invocation saw is closed
Returned(h, unacked) ==
    [h EXCEPT !.unacked = {}, !.leftPending = @ \/ unacked # {}]

\* line 93: if globals.update_pin.interrupt_status(EdgeLow); if not, the
\* handler returns
IrqStatusUpdate ==
    /\ ipc = "status_update"
    /\ IF edgeLow["update"]
         THEN /\ ipc' = "stamp_update"
              /\ hist' = [hist EXCEPT !.unacked = @ \cup {"update"}]
         ELSE /\ ipc' = "idle"
              /\ hist' = Returned(hist, hist.unacked)
    /\ UNCHANGED <<mpc, polled, now, level, edgeLow, counter, irqUnmasked, STEERING,
                   THROTTLE, LAST_UPDATE, GLOBAL_PINS, GLOBALS, count, scn>>
    /\ UNCHANGED nonRx

\* the stamp taken one timeout ahead of the timer's reading
StampAhead(pair, current) ==
    IF pair.timer THEN [pair EXCEPT !.last_update = current + WatchdogUs] ELSE pair

\* lines 96-98: if let Some(timer) = &pair.timer { pair.last_update = timer.get_counter() }
Stamp(pair, current) ==
    IF pair.timer THEN [pair EXCEPT !.last_update = current] ELSE pair

\* lines 94-99: the critical section on LAST_UPDATE
IrqStamp ==
    /\ ipc = "stamp_update"
    /\ LAST_UPDATE' = Stamp(LAST_UPDATE, now)
    /\ ipc' = "clear_update"
    /\ hist' = [hist EXCEPT !.updSvc = TRUE, !.svcT = now]
    /\ UNCHANGED <<mpc, polled, now, level, edgeLow, counter, irqUnmasked, STEERING,
                   THROTTLE, GLOBAL_PINS, GLOBALS, count, scn>>
    /\ UNCHANGED nonRx

\* line 101: globals.update_pin.clear_interrupt(EdgeLow), then the handler returns
IrqClearUpdate ==
    /\ ipc = "clear_update"
    /\ edgeLow' = [edgeLow EXCEPT !["update"] = FALSE]
    /\ ipc' = "idle"
    /\ hist' = Returned(hist, hist.unacked \ {"update"})
    /\ UNCHANGED <<mpc, polled, now, level, counter, irqUnmasked, STEERING,
                   THROTTLE, LAST_UPDATE, GLOBAL_PINS, GLOBALS, count, scn>>
    /\ UNCHANGED nonRx

IO_IRQ_BANK0 ==
    \/ IrqEnter
    \/ IrqTake
    \/ IrqSome
    \/ \E c \in Channels : IrqStatus(c)
    \/ \E c \in Channels : IrqRead(c)
    \/ \E c \in Channels : IrqReset(c)
    \/ \E c \in Channels : IrqClear(c)
    \/ \E c \in Channels : IrqStore(c)
    \/ IrqStatusUpdate
    \/ IrqStamp
    \/ IrqClearUpdate

-----------------------------------------------------------------------------
(* receiver.rs: the critical sections statement by statement *)

\* RefCell::borrow: panics if the cell is mutably borrowed
Borrow(c) ==
    cells' = IF cells[c] >= 0 THEN [cells EXCEPT ![c] = @ + 1]
                              ELSE [cells EXCEPT !.failed = TRUE]

\* RefCell::borrow_mut (also inside replace and take): panics if the cell is borrowed
BorrowMut(c) ==
    cells' = IF cells[c] = 0 THEN [cells EXCEPT ![c] = -1]
                             ELSE [cells EXCEPT !.failed = TRUE]

\* the Ref / RefMut is dropped
Release(c) ==
    cells' = [cells EXCEPT ![c] = IF @ = -1 THEN 0 ELSE @ - 1]

\* where a context goes after a borrow attempt
AfterBorrow(next) == IF cells'.failed THEN "panic" ELSE next

hwVars == <<now, level, edgeLow, counter, irqUnmasked, scn>>

\* a statement of main: main runs only while the handler does not (one core)
CsMain(from, to) ==
    /\ ipc = "idle"
    /\ mpc = from
    /\ mpc' = to
    /\ UNCHANGED <<hwVars, STEERING, THROTTLE, GLOBALS, ipc, count, hist>>
    /\ UNCHANGED <<ledVars, pureVars>>

\* a statement of the handler
CsIrq(from, to) ==
    /\ ipc = from
    /\ ipc' = to
    /\ UNCHANGED <<hwVars, STEERING, THROTTLE, mpc, polled, count>>
    /\ UNCHANGED <<ledVars, pureVars>>

\* initialize_receiver line 161: critical_section::with(|cs| {
CsInstallAcquire ==
    /\ CsMain("enabled", "install_lu")
    /\ csDepth' = csDepth + 1
    /\ UNCHANGED <<polled, LAST_UPDATE, GLOBAL_PINS, cells>>

\* line 162: LAST_UPDATE.borrow(cs).replace(...), the borrow_mut inside replace
CsInstallBorrowLU ==
    /\ mpc = "install_lu"
    /\ BorrowMut("LAST_UPDATE")
    /\ CsMain("install_lu", AfterBorrow("install_lu_w"))
    /\ UNCHANGED <<polled, LAST_UPDATE, GLOBAL_PINS, csDepth>>

\* lines 162-165: the pair is replaced and the RefMut dropped
CsInstallWriteLU ==
    /\ CsMain("install_lu_w", "install_gp")
    /\ LAST_UPDATE' = [timer |-> TRUE, last_update |-> 0]
    /\ Release("LAST_UPDATE")
    /\ UNCHANGED <<polled, GLOBAL_PINS, csDepth>>

\* line 167: GLOBAL_PINS.borrow(cs).replace(...), the borrow_mut inside replace
CsInstallBorrowGP ==
    /\ mpc = "install_gp"
    /\ BorrowMut("GLOBAL_PINS")
    /\ CsMain("install_gp", AfterBorrow("install_gp_w"))
    /\ UNCHANGED <<polled, LAST_UPDATE, GLOBAL_PINS, csDepth>>

\* lines 167-173: the handles are stored and the RefMut dropped
CsInstallWriteGP ==
    /\ CsMain("install_gp_w", "install_exit")
    /\ GLOBAL_PINS' = "Some"
    /\ Release("GLOBAL_PINS")
    /\ UNCHANGED <<polled, LAST_UPDATE, csDepth>>

\* line 174: the critical section ends
CsInstallRelease ==
    /\ CsMain("install_exit", "installed")
    /\ csDepth' = csDepth - 1
    /\ UNCHANGED <<polled, LAST_UPDATE, GLOBAL_PINS, cells>>

\* has_watchdog_expired line 51: critical_section::with(|cs| {
CsWatchdogAcquire ==
    /\ CsMain("running", "wd_borrow")
    /\ csDepth' = csDepth + 1
    /\ UNCHANGED <<polled, LAST_UPDATE, GLOBAL_PINS, cells>>

\* line 52: let pair = self.borrow(cs).borrow()
CsWatchdogBorrow ==
    /\ mpc = "wd_borrow"
    /\ Borrow("LAST_UPDATE")
    /\ CsMain("wd_borrow", AfterBorrow("wd_read"))
    /\ UNCHANGED <<polled, LAST_UPDATE, GLOBAL_PINS, csDepth>>

\* lines 53-59: the answer is computed from the borrowed pair
CsWatchdogRead ==
    /\ CsMain("wd_read", "wd_drop")
    /\ polled' = <<"expired", IF has_watchdog_expired(LAST_UPDATE, now) THEN 1 ELSE 0>>
    /\ UNCHANGED <<LAST_UPDATE, GLOBAL_PINS, csDepth, cells>>

\* line 60: pair goes out of scope at the end of the closure
CsWatchdogDrop ==
    /\ CsMain("wd_drop", "wd_exit")
    /\ Release("LAST_UPDATE")
    /\ UNCHANGED <<polled, LAST_UPDATE, GLOBAL_PINS, csDepth>>

\* line 60: the critical section ends
CsWatchdogRelease ==
    /\ CsMain("wd_exit", "running")
    /\ csDepth' = csDepth - 1
    /\ UNCHANGED <<polled, LAST_UPDATE, GLOBAL_PINS, cells>>

\* the handler entered although a critical section is open
CsIrqEnterUnmasked ==
    /\ irqUnmasked
    /\ IrqPending
    /\ CsIrq("idle", "take")
    /\ hist' = [hist EXCEPT !.irqRuns = Sat2(@)]
    /\ UNCHANGED <<LAST_UPDATE, GLOBAL_PINS, GLOBALS, csVars>>

\* the NVIC enters the handler: unmasked, a flag pending, and interrupts not
\* turned off by a critical section
CsIrqEnter ==
    /\ irqUnmasked
    /\ IrqPending
    /\ csDepth = 0
    /\ CsIrq("idle", "take")
    /\ hist' = [hist EXCEPT !.irqRuns = Sat2(@)]
    /\ UNCHANGED <<LAST_UPDATE, GLOBAL_PINS, GLOBALS, csVars>>

\* line 72: if GLOBALS.is_none()
CsTakeTest ==
    /\ CsIrq("take", IF GLOBALS = "None" THEN "take_cs" ELSE "some")
    /\ UNCHANGED <<LAST_UPDATE, GLOBAL_PINS, GLOBALS, hist, csVars>>

\* line 73: critical_section::with(|cs| {
CsTakeAcquire ==
    /\ CsIrq("take_cs", "take_borrow")
    /\ csDepth' = csDepth + 1
    /\ UNCHANGED <<LAST_UPDATE, GLOBAL_PINS, GLOBALS, hist, cells>>

\* line 74: GLOBAL_PINS.borrow(cs).take(), the borrow_mut inside take
CsTakeBorrow ==
    /\ ipc = "take_borrow"
    /\ BorrowMut("GLOBAL_PINS")
    /\ CsIrq("take_borrow", AfterBorrow("take_move"))
    /\ UNCHANGED <<LAST_UPDATE, GLOBAL_PINS, GLOBALS, hist, csDepth>>

\* line 74: the value moves into GLOBALS and the RefMut is dropped
CsTakeMove ==
    /\ CsIrq("take_move", "take_exit")
    /\ LazyTake
    /\ Release("GLOBAL_PINS")
    /\ UNCHANGED <<LAST_UPDATE, csDepth>>

\* line 75: the critical section ends
CsTakeRelease ==
    /\ CsIrq("take_exit", "some")
    /\ csDepth' = csDepth - 1
    /\ UNCHANGED <<LAST_UPDATE, GLOBAL_PINS, GLOBALS, hist, cells>>

\* line 94: critical_section::with(|cs| {
CsStampAcquire ==
    /\ CsIrq("stamp_update", "stamp_borrow")
    /\ csDepth' = csDepth + 1
    /\ UNCHANGED <<LAST_UPDATE, GLOBAL_PINS, GLOBALS, hist, cells>>

\* line 95: let mut pair = LAST_UPDATE.borrow(cs).borrow_mut()
CsStampBorrow ==
    /\ ipc = "stamp_borrow"
    /\ BorrowMut("LAST_UPDATE")
    /\ CsIrq("stamp_borrow", AfterBorrow("stamp_write"))
    /\ UNCHANGED <<LAST_UPDATE, GLOBAL_PINS, GLOBALS, hist, csDepth>>

\* lines 96-98
CsStampWrite ==
    /\ CsIrq("stamp_write", "stamp_drop")
    /\ LAST_UPDATE' = Stamp(LAST_UPDATE, now)
    /\ hist' = [hist EXCEPT !.updSvc = TRUE, !.svcT = now]
    /\ UNCHANGED <<GLOBAL_PINS, GLOBALS, csVars>>

\* line 99: pair goes out of scope
CsStampDrop ==
    /\ CsIrq("stamp_drop", "stamp_exit")
    /\ Release("LAST_UPDATE")
    /\ UNCHANGED <<LAST_UPDATE, GLOBAL_PINS, GLOBALS, hist, csDepth>>

\* line 99: the critical section ends
CsStampRelease ==
    /\ CsIrq("stamp_exit", "clear_update")
    /\ csDepth' = csDepth - 1
    /\ UNCHANGED <<LAST_UPDATE, GLOBAL_PINS, GLOBALS, hist, cells>>

-----------------------------------------------------------------------------
(* lights.rs: 32-bit words, as vectors of bits (index 1 is bit 0) *)

BitIdx == 1..32

\* `v as u32` for a value below 2^31
U32(v) == [i \in BitIdx |-> IF i = 32 THEN 0 ELSE (v \div 2^(i - 1)) % 2]

\* the literal 0xFF000000u32
HeaderWord == [i \in BitIdx |-> IF i >= 25 THEN 1 ELSE 0]

\* a << n on u32
Shl(a, n) == [i \in BitIdx |-> IF i > n THEN a[i - n] ELSE 0]

\* a | b on u32
BitOr(a, b) == [i \in BitIdx |-> IF a[i] = 1 \/ b[i] = 1 THEN 1 ELSE 0]

IsZero(a) == \A i \in BitIdx : a[i] = 0

\* a >> 1 on u32
Shr1(a) == [i \in BitIdx |-> IF i = 32 THEN 0 ELSE a[i + 1]]

\* a - 1 on u32, wrapping
Dec(a) ==
    IF IsZero(a)
      THEN [i \in BitIdx |-> 1]
      ELSE LET k == CHOOSE k \in BitIdx : a[k] = 1 /\ \A j \in 1..(k - 1) : a[j] = 0
           IN  [i \in BitIdx |-> IF i < k THEN 1 ELSE IF i = k THEN 0 ELSE a[i]]

\* bits lo .. lo+7 of a word, as a number
ByteAt(a, lo) ==
    a[lo + 1] + 2 * a[lo + 2] + 4 * a[lo + 3] + 8 * a[lo + 4] + 16 * a[lo + 5]
      + 32 * a[lo + 6] + 64 * a[lo + 7] + 128 * a[lo + 8]

\* the conversion with the two upper channels shifted to each other's place
FrontLedsIntoU32Swapped(value) ==
    BitOr(BitOr(BitOr(HeaderWord, Shl(U32(value.high_beam), 8)),
                Shl(U32(value.low_beam), 16)),
          U32(value.yellow))

\* impl From<FrontLeds> for u32
FrontLedsIntoU32(value) ==
    BitOr(BitOr(BitOr(HeaderWord, Shl(U32(value.high_beam), 16)),
                Shl(U32(value.low_beam), 8)),
          U32(value.yellow))

\* the conversion of a rear colour without the 0xFF000000 header
RearLedsIntoU32NoHeader(value) ==
    BitOr(BitOr(Shl(U32(value.red), 16), Shl(U32(value.white), 8)),
          U32(value.yellow))

\* impl From<RearLeds> for u32
RearLedsIntoU32(value) ==
    BitOr(BitOr(BitOr(HeaderWord, Shl(U32(value.red), 16)),
                Shl(U32(value.white), 8)),
          U32(value.yellow))

-----------------------------------------------------------------------------
(* lights.rs: Leds::write *)

\* Buffers::OnlyTx joins the two 4-word FIFOs into one TX FIFO
FifoDepth == 8
\* the last word of the terminator
ResetCountWord == 42

\* bound: calls of Leds::write
MaxFrames == 3
\* bound: calls of tx.write that find the FIFO full
MaxDrops == 1

FrontLeds(y, l, h) == [yellow |-> y, low_beam |-> l, high_beam |-> h]
RearLeds(y, w, r) == [yellow |-> y, white |-> w, red |-> r]

\* the frames written: the first frame of main's loop (main.rs:91-112) and one
\* frame whose fixtures all differ
Frames ==
    { [front_right |-> FrontLeds(0, 0, 0), front_left |-> FrontLeds(42, 0, 0),
       rear_left |-> RearLeds(42, 0, 0), rear_right |-> RearLeds(0, 0, 0)],
      [front_right |-> FrontLeds(3, 4, 5), front_left |-> FrontLeds(1, 2, 128),
       rear_left |-> RearLeds(8, 9, 10), rear_right |-> RearLeds(6, 7, 255)] }

\* the frame with the last two words of the terminator in each other's place
FrameWordsCountFirst(leds) ==
    << FrontLedsIntoU32(leds.front_left),
       FrontLedsIntoU32(leds.front_right),
       RearLedsIntoU32(leds.rear_right),
       RearLedsIntoU32(leds.rear_left),
       HeaderWord,
       U32(ResetCountWord),
       U32(0) >>

\* the seven arguments of tx.write in Leds::write, in program order
FrameWords(leds) ==
    << FrontLedsIntoU32(leds.front_left),
       FrontLedsIntoU32(leds.front_right),
       RearLedsIntoU32(leds.rear_right),
       RearLedsIntoU32(leds.rear_left),
       HeaderWord,
       U32(0),
       U32(ResetCountWord) >>

\* Tx::write of rp2040-hal: the word goes into the FIFO unless the FIFO is
\* full; then nothing is written and the call returns false at once.  Leds::write
\* discards the returned bool.
TxWrite(fifo, word) ==
    IF Len(fifo) < FifoDepth THEN Append(fifo, word) ELSE fifo

NoLeds == [front_right |-> FrontLeds(0, 0, 0), front_left |-> FrontLeds(0, 0, 0),
           rear_left |-> RearLeds(0, 0, 0), rear_right |-> RearLeds(0, 0, 0)]

\* line 114: critical_section::with(|_cs| {
LedsWriteEnter ==
    /\ writer.pc = "idle"
    /\ writer.calls < MaxFrames
    /\ \E leds \in Frames :
         writer' = [pc |-> "cs", i |-> 1, leds |-> leds, calls |-> writer.calls + 1]
    /\ lhist' = [lhist EXCEPT !.accepted = <<>>, !.done = FALSE]
    /\ UNCHANGED <<tx, sm, wave>>
    /\ UNCHANGED nonLed

\* lines 115-121: the i-th tx.write(...)
LedsWriteWord ==
    /\ writer.pc = "cs"
    /\ writer.i <= 7
    /\ Len(tx) = FifoDepth => lhist.dropped < MaxDrops
    /\ LET word == FrameWords(writer.leds)[writer.i]
           fifo == TxWrite(tx, word)
       IN  /\ tx' = fifo
           /\ lhist' = IF Len(fifo) > Len(tx)
                         THEN [lhist EXCEPT !.accepted = Append(@, word)]
                         ELSE [lhist EXCEPT !.dropped = @ + 1]
    /\ writer' = [writer EXCEPT !.i = @ + 1]
    /\ UNCHANGED <<sm, wave>>
    /\ UNCHANGED nonLed

\* line 122: the critical section ends and Leds::write returns
LedsWriteExit ==
    /\ writer.pc = "cs"
    /\ writer.i = 8
    /\ writer' = [writer EXCEPT !.pc = "idle"]
    /\ lhist' = [lhist EXCEPT !.done = TRUE]
    /\ UNCHANGED <<tx, sm, wave>>
    /\ UNCHANGED nonLed

-----------------------------------------------------------------------------
(* lights.rs: the PIO program of initialize_lights *)

\* .define public t1 / t2 / t3
T1 == 8
T2 == 6
T3 == 8
\* .pull_threshold(24)
PullThreshold == 24

\* bound: executions of keep_looping modelled in one reset
MaxResetLoops == 44

\* program counter values, in program order
NEW_DATA == 0
CHECK_BIT == 6
BITLOOP == 5
DO_ONE == 7
DO_ZERO == 8
WRAP_TARGET == 9
DO_STOP == 10
KEEP_LOOPING == 12

NoPeriod == [len |-> 0, low |-> 0, crossed |-> FALSE, bit |-> 0]

WaveInit ==
    [ run |-> 0,            \* cycles the pin has held its level
      runOk |-> FALSE,      \* no stall fell into them
      crossed |-> FALSE,    \* new_data's pull fell into them
      kind |-> "none",      \* what the current or last high pulse is: "bit" / "reset"
      bit |-> 0,            \* the bit it encodes
      hi |-> [len |-> 0, kind |-> "none", bit |-> 0],   \* the last completed high pulse
      per |-> NoPeriod,     \* the last completed bit period (rise to rise)
      rst |-> 0,            \* cycles spent in the running reset sequence
      loops |-> 0,          \* executions of keep_looping in it
      cnt |-> U32(0),       \* the word do_stop pulled as its count
      lastReset |-> [low |-> 0, high |-> 0, cnt |-> U32(0)],  \* the last completed reset
      resets |-> 0,
      word |-> U32(0),      \* the word new_data pulled last
      bits |-> <<>> ]       \* the bits whose pulses have started since that pull

\* the pin is driven to `side` for `cycles` cycles by an instruction
Hold(w, pin, side, cycles, kind, bit) ==
    IF side = pin
      THEN [w EXCEPT !.run = @ + cycles]
      ELSE IF side = 0
        THEN [w EXCEPT !.run = cycles, !.runOk = TRUE, !.crossed = FALSE,
                       !.hi = [len |-> w.run, kind |-> w.kind, bit |-> w.bit]]
        ELSE [w EXCEPT !.run = cycles, !.runOk = TRUE, !.kind = kind, !.bit = bit,
                       !.per = IF kind = "bit" /\ w.hi.kind = "bit" /\ w.runOk
                                 THEN [len |-> w.hi.len + w.run, low |-> w.run,
                                       crossed |-> w.crossed, bit |-> w.hi.bit]
                                 ELSE NoPeriod]

Low(w, cycles) == Hold(w, sm.pin, 0, cycles, "none", 0)

SmInit == [pc |-> NEW_DATA, x |-> U32(0), y |-> 0, osr |-> U32(0), shift |-> 0, pin |-> 0]

Min(a, b) == IF a < b THEN a ELSE b

\* !osre with the threshold left at the full register width
OsrNotEmptyAt32 == sm.shift < 32

\* !osre: fewer bits shifted out than the pull threshold
OsrNotEmpty == sm.shift < PullThreshold

\* a blocking pull finds the FIFO empty: the state machine stalls on it
EncStall ==
    /\ sm.pc \in {NEW_DATA, DO_STOP}
    /\ tx = <<>>
    /\ wave.runOk
    /\ wave' = [wave EXCEPT !.runOk = FALSE]
    /\ UNCHANGED <<tx, writer, sm, lhist>>
    /\ UNCHANGED nonLed

\* new_data: pull side 0 [0]
EncNewDataPull ==
    /\ sm.pc = NEW_DATA
    /\ tx # <<>>
    /\ sm' = [sm EXCEPT !.pc = 1, !.osr = Head(tx), !.shift = 0, !.pin = 0]
    /\ tx' = Tail(tx)
    /\ wave' = [Low(wave, 1) EXCEPT !.crossed = TRUE, !.word = Head(tx), !.bits = <<>>]
    /\ UNCHANGED <<writer, lhist>>
    /\ UNCHANGED nonLed

\* mov x osr side 0 [0]
EncNewDataMov ==
    /\ sm.pc = 1
    /\ sm' = [sm EXCEPT !.pc = 2, !.x = sm.osr, !.pin = 0]
    /\ wave' = Low(wave, 1)
    /\ UNCHANGED <<tx, writer, lhist>>
    /\ UNCHANGED nonLed

\* jmp !x do_stop side 0 [0]
EncNewDataJmp ==
    /\ sm.pc = 2
    /\ sm' = [sm EXCEPT !.pc = IF IsZero(sm.x) THEN DO_STOP ELSE 3, !.pin = 0]
    /\ wave' = Low(wave, 1)
    /\ UNCHANGED <<tx, writer, lhist>>
    /\ UNCHANGED nonLed

\* the first out with no delay at all
EncFirstOutNoDelay ==
    /\ sm.pc = 3
    /\ sm' = [sm EXCEPT !.pc = 4, !.y = sm.osr[1], !.osr = Shr1(sm.osr),
                        !.shift = Min(sm.shift + 1, 32), !.pin = 0]
    /\ wave' = Low(wave, 1)
    /\ UNCHANGED <<tx, writer, lhist>>
    /\ UNCHANGED nonLed

\* out y, 1 side 0 [2]
EncFirstOut ==
    /\ sm.pc = 3
    /\ sm' = [sm EXCEPT !.pc = 4, !.y = sm.osr[1], !.osr = Shr1(sm.osr),
                        !.shift = Min(sm.shift + 1, 32), !.pin = 0]
    /\ wave' = Low(wave, 1 + 2)
    /\ UNCHANGED <<tx, writer, lhist>>
    /\ UNCHANGED nonLed

\* jmp check_bit side 0 [0]
EncJmpCheckBit ==
    /\ sm.pc = 4
    /\ sm' = [sm EXCEPT !.pc = CHECK_BIT, !.pin = 0]
    /\ wave' = Low(wave, 1)
    /\ UNCHANGED <<tx, writer, lhist>>
    /\ UNCHANGED nonLed

\* bitloop: out y, 1 side 0 [t3 - 1]
EncBitloopOut ==
    /\ sm.pc = BITLOOP
    /\ sm' = [sm EXCEPT !.pc = CHECK_BIT, !.y = sm.osr[1], !.osr = Shr1(sm.osr),
                        !.shift = Min(sm.shift + 1, 32), !.pin = 0]
    /\ wave' = Low(wave, T3)
    /\ UNCHANGED <<tx, writer, lhist>>
    /\ UNCHANGED nonLed

\* check_bit: jmp !y do_zero side 1 [t1 - 1]
EncCheckBit ==
    /\ sm.pc = CHECK_BIT
    /\ sm' = [sm EXCEPT !.pc = IF sm.y = 0 THEN DO_ZERO ELSE DO_ONE, !.pin = 1]
    /\ wave' = [Hold(wave, sm.pin, 1, T1, "bit", sm.y) EXCEPT !.bits = Append(@, sm.y)]
    /\ UNCHANGED <<tx, writer, lhist>>
    /\ UNCHANGED nonLed

\* do_one: jmp !osre bitloop side 1 [t2 - 1]; .wrap sends the fall-through to
\* .wrap_target
EncDoOne ==
    /\ sm.pc = DO_ONE
    /\ sm' = [sm EXCEPT !.pc = IF OsrNotEmpty THEN BITLOOP ELSE WRAP_TARGET, !.pin = 1]
    /\ wave' = Hold(wave, sm.pin, 1, T2, "bit", sm.y)
    /\ UNCHANGED <<tx, writer, lhist>>
    /\ UNCHANGED nonLed

\* do_zero: jmp !osre bitloop side 0 [t2 - 1]; falls through to the next
\* instruction, the one at .wrap_target
EncDoZero ==
    /\ sm.pc = DO_ZERO
    /\ sm' = [sm EXCEPT !.pc = IF OsrNotEmpty THEN BITLOOP ELSE WRAP_TARGET, !.pin = 0]
    /\ wave' = Low(wave, T2)
    /\ UNCHANGED <<tx, writer, lhist>>
    /\ UNCHANGED nonLed

\* .wrap_target: jmp new_data side 0 [0]
EncWrapJmp ==
    /\ sm.pc = WRAP_TARGET
    /\ sm' = [sm EXCEPT !.pc = NEW_DATA, !.pin = 0]
    /\ wave' = Low(wave, 1)
    /\ UNCHANGED <<tx, writer, lhist>>
    /\ UNCHANGED nonLed

\* do_stop: pull side 0 [0]
EncDoStopPull ==
    /\ sm.pc = DO_STOP
    /\ tx # <<>>
    /\ sm' = [sm EXCEPT !.pc = 11, !.osr = Head(tx), !.shift = 0, !.pin = 0]
    /\ tx' = Tail(tx)
    /\ wave' = [Low(wave, 1) EXCEPT !.rst = 1, !.loops = 0, !.cnt = Head(tx)]
    /\ UNCHANGED <<writer, lhist>>
    /\ UNCHANGED nonLed

\* mov x osr side 0 [0]
EncDoStopMov ==
    /\ sm.pc = 11
    /\ sm' = [sm EXCEPT !.pc = KEEP_LOOPING, !.x = sm.osr, !.pin = 0]
    /\ wave' = [Low(wave, 1) EXCEPT !.rst = @ + 1]
    /\ UNCHANGED <<tx, writer, lhist>>
    /\ UNCHANGED nonLed

\* keep_looping without its delay
EncKeepLoopingNoDelay ==
    /\ sm.pc = KEEP_LOOPING
    /\ wave.loops < MaxResetLoops
    /\ sm' = [sm EXCEPT !.pc = IF IsZero(sm.x) THEN 13 ELSE KEEP_LOOPING,
                        !.x = Dec(sm.x), !.pin = 0]
    /\ wave' = [Low(wave, 1) EXCEPT !.rst = @ + 1, !.loops = @ + 1]
    /\ UNCHANGED <<tx, writer, lhist>>
    /\ UNCHANGED nonLed

\* keep_looping: jmp x-- keep_looping side 0 [7]
EncKeepLooping ==
    /\ sm.pc = KEEP_LOOPING
    /\ wave.loops < MaxResetLoops
    /\ sm' = [sm EXCEPT !.pc = IF IsZero(sm.x) THEN 13 ELSE KEEP_LOOPING,
                        !.x = Dec(sm.x), !.pin = 0]
    /\ wave' = [Low(wave, 1 + 7) EXCEPT !.rst = @ + 1 + 7, !.loops = @ + 1]
    /\ UNCHANGED <<tx, writer, lhist>>
    /\ UNCHANGED nonLed

\* nop side 1 [7]
EncResetNop ==
    /\ sm.pc = 13
    /\ sm' = [sm EXCEPT !.pc = 14, !.pin = 1]
    /\ wave' = [Hold(wave, sm.pin, 1, 1 + 7, "reset", 0) EXCEPT
                  !.lastReset = [low |-> wave.rst, high |-> 1 + 7, cnt |-> wave.cnt],
                  !.rst = 0, !.loops = 0, !.resets = Sat2(@)]
    /\ UNCHANGED <<tx, writer, lhist>>
    /\ UNCHANGED nonLed

\* the jump after the reset going to do_stop
EncResetJmpDoStop ==
    /\ sm.pc = 14
    /\ sm' = [sm EXCEPT !.pc = DO_STOP, !.pin = 0]
    /\ wave' = Low(wave, 1)
    /\ UNCHANGED <<tx, writer, lhist>>
    /\ UNCHANGED nonLed

\* jmp new_data side 0 [0]
EncResetJmp ==
    /\ sm.pc = 14
    /\ sm' = [sm EXCEPT !.pc = NEW_DATA, !.pin = 0]
    /\ wave' = Low(wave, 1)
    /\ UNCHANGED <<tx, writer, lhist>>
    /\ UNCHANGED nonLed

Encoder ==
    \/ EncStall
    \/ EncNewDataPull
    \/ EncNewDataMov
    \/ EncNewDataJmp
    \/ EncFirstOut
    \/ EncJmpCheckBit
    \/ EncBitloopOut
    \/ EncCheckBit
    \/ EncDoOne
    \/ EncDoZero
    \/ EncWrapJmp
    \/ EncDoStopPull
    \/ EncDoStopMov
    \/ EncKeepLooping
    \/ EncResetNop
    \/ EncResetJmp

\* the state after initialize_lights: the state machine started, nothing written
LedInit ==
    /\ tx = <<>>
    /\ writer = [pc |-> "idle", i |-> 1, leds |-> NoLeds, calls |-> 0]
    /\ sm = SmInit
    /\ wave = WaveInit
    /\ lhist = [accepted |-> <<>>, dropped |-> 0, done |-> FALSE]

LedIdle == LedInit

-----------------------------------------------------------------------------
(* lights.rs: the conversions of a fixture colour, applied to sampled colours *)

\* the largest u8
MaxByte == 255

\* values of the two channels that do not run over the whole byte range
OtherBytes == {0, 85, 170, 255}

NoWord == U32(0)

ConvIdle == [kind |-> "none", yellow |-> 0, mid |-> 0, high |-> 0, n |-> 0,
             word |-> NoWord, first |-> NoWord]

\* one channel takes every byte value, the other two the sampled ones
ConvInit ==
    \E k \in {"front", "rear"}, which \in 1..3, v \in 0..MaxByte, o1, o2 \in OtherBytes :
        conv = [ConvIdle EXCEPT !.kind = k,
                                !.yellow = IF which = 1 THEN v ELSE o1,
                                !.mid = IF which = 2 THEN v ELSE IF which = 1 THEN o1 ELSE o2,
                                !.high = IF which = 3 THEN v ELSE o2]

\* u32::from(colour), called up to twice on the same colour
Convert ==
    /\ conv.kind # "none"
    /\ conv.n < 2
    /\ LET w == IF conv.kind = "front"
                  THEN FrontLedsIntoU32(FrontLeds(conv.yellow, conv.mid, conv.high))
                  ELSE RearLedsIntoU32(RearLeds(conv.yellow, conv.mid, conv.high))
       IN  conv' = [conv EXCEPT !.word = w, !.n = @ + 1,
                                !.first = IF conv.n = 0 THEN w ELSE @]
    /\ UNCHANGED <<rxVars, ledVars, div, csVars>>

-----------------------------------------------------------------------------
(* lights.rs: the clock divisor of initialize_lights, lines 47-61 *)

\* let frequency = 871000
Frequency == 871000

\* bound: system clock rates, in MHz
MaxClockMHz == 133

ClockRates == {k * 1000000 : k \in 1..MaxClockMHz}

\* floor(r * 2^k / d) for r < d, by long division: no intermediate exceeds 2 * d
RECURSIVE ShiftDiv(_, _, _)
ShiftDiv(r, d, k) ==
    IF k = 0
      THEN 0
      ELSE IF 2 * r >= d
             THEN 2^(k - 1) + ShiftDiv(2 * r - d, d, k - 1)
             ELSE ShiftDiv(2 * r, d, k - 1)

\* lines 48-50
cycles_per_bit == T1 + T2 + T3
frequency_per_bit == Frequency * cycles_per_bit

\* remainder * 256 does not fit u32
MulOverflows(remainder) == remainder >= 2^24

\* (remainder * 256) / frequency_per_bit on u32 with the product wrapping:
\* (remainder * 256) mod 2^32 = (remainder mod 2^24) * 256
WrappingFract(remainder) == ShiftDiv(remainder % 2^24, frequency_per_bit, 8)

DivIdle == [pc |-> "none", f |-> 0, build |-> "none", int_part |-> 0, fract_part |-> 0]

\* a system clock rate, and whether the build checks arithmetic overflow
\* ("debug") or wraps ("release")
DivInit ==
    \E f \in ClockRates, b \in {"debug", "release"} :
        div = [DivIdle EXCEPT !.pc = "start", !.f = f, !.build = b]

\* lines 52-54 and the casts of line 61
ComputeDivisor ==
    /\ div.pc = "start"
    /\ LET int_part == div.f \div frequency_per_bit
           remainder == div.f % frequency_per_bit
       IN  IF MulOverflows(remainder) /\ div.build = "debug"
             THEN div' = [div EXCEPT !.pc = "panic"]
             ELSE div' = [div EXCEPT !.pc = "done",
                                     !.int_part = int_part % 65536,
                                     !.fract_part = WrappingFract(remainder) % 256]
    /\ UNCHANGED <<rxVars, ledVars, conv, csVars>>

PureIdle == conv = ConvIdle /\ div = DivIdle

-----------------------------------------------------------------------------
(* The receiver *)

Init == RxInit("widths") /\ LedIdle /\ PureIdle

InitWatchdog == RxInit("watchdog") /\ LedIdle /\ PureIdle

Next ==
    \/ InitEnable
    \/ InitInstall
    \/ InitUnmask
    \/ ReadSteering
    \/ ReadThrottle
    \/ ReadWatchdog
    \/ TimerTick
    \/ \E p \in Pins : Rise(p)
    \/ \E c \in Channels : Count(c)
    \/ \E p \in Pins : Fall(p)
    \/ IO_IRQ_BANK0

Spec == Init /\ [][Next]_vars

SpecWatchdog == InitWatchdog /\ [][Next]_vars

\* The receiver with its critical sections statement by statement: main is
\* preempted by the handler wherever interrupts are on, and does not run while
\* the handler does.
InitBorrow == RxInit("watchdog") /\ LedIdle /\ PureIdle

NextBorrow ==
    \/ (ipc = "idle" /\ InitEnable)
    \/ CsInstallAcquire
    \/ CsInstallBorrowLU
    \/ CsInstallWriteLU
    \/ CsInstallBorrowGP
    \/ CsInstallWriteGP
    \/ CsInstallRelease
    \/ (ipc = "idle" /\ InitUnmask)
    \/ (ipc = "idle" /\ ReadSteering)
    \/ CsWatchdogAcquire
    \/ CsWatchdogBorrow
    \/ CsWatchdogRead
    \/ CsWatchdogDrop
    \/ CsWatchdogRelease
    \/ TimerTick
    \/ \E p \in Pins : Rise(p)
    \/ \E c \in Channels : Count(c)
    \/ \E p \in Pins : Fall(p)
    \/ CsIrqEnter
    \/ CsTakeTest
    \/ CsTakeAcquire
    \/ CsTakeBorrow
    \/ CsTakeMove
    \/ CsTakeRelease
    \/ IrqSome
    \/ \E c \in Channels : IrqStatus(c)
    \/ \E c \in Channels : IrqRead(c)
    \/ \E c \in Channels : IrqReset(c)
    \/ \E c \in Channels : IrqClear(c)
    \/ \E c \in Channels : IrqStore(c)
    \/ IrqStatusUpdate
    \/ CsStampAcquire
    \/ CsStampBorrow
    \/ CsStampWrite
    \/ CsStampDrop
    \/ CsStampRelease
    \/ IrqClearUpdate

SpecBorrow == InitBorrow /\ [][NextBorrow]_vars

-----------------------------------------------------------------------------
(* The lights: main writing frames back to back, and the encoder *)

RxIdle == RxInit("none")

InitLeds == LedInit /\ RxIdle /\ PureIdle

NextLeds ==
    \/ LedsWriteEnter
    \/ LedsWriteWord
    \/ LedsWriteExit
    \/ Encoder

SpecLeds == InitLeds /\ [][NextLeds]_vars

\* the same, with the state machine clocked for ever (it executes its next
\* instruction unless it stalls on an empty FIFO) and main running on inside
\* Leds::write; main is not obliged to write another frame
SpecLedsLive ==
    /\ InitLeds
    /\ [][NextLeds]_vars
    /\ WF_vars(Encoder)
    /\ WF_vars(LedsWriteWord \/ LedsWriteExit)

-----------------------------------------------------------------------------
(* The pure functions, applied to sampled inputs *)

InitWord == RxIdle /\ LedIdle /\ ConvInit /\ div = DivIdle

NextWord == Convert

SpecWord == InitWord /\ [][NextWord]_vars

InitDivisor == RxIdle /\ LedIdle /\ conv = ConvIdle /\ DivInit

NextDivisor == ComputeDivisor

SpecDivisor == InitDivisor /\ [][NextDivisor]_vars

-----------------------------------------------------------------------------
(* Claims about the receiver *)

\* C1: whenever a falling edge that ended a high phase of N ticks (N within
\* 16 bits) has been published, steering()/throttle() return exactly N, and
\* they keep returning it, i.e. the previously published value, in every state
\* up to the store of the next serviced edge, wherever main's read falls.
C1_WidthIsLastEdge ==
    \A c \in Channels :
        hist.pubN[c] < CounterModulus => Width(c) = hist.pubN[c]

\* the end-to-end scenario: 1200 ticks published, then 50, and main reads 50
C1_Witness ==
    /\ hist.prevN["steering"] = 1200
    /\ hist.pubN["steering"] = 50
    /\ polled = <<"steering", 50>>

\* C2: once an update edge has been serviced at timer reading T, the watchdog
\* query is false at every reading <= T + 100 ms and true at every reading
\* beyond it (T the reading of the latest serviced update edge).
C2_ExpiresStrictlyAfter ==
    hist.updSvc =>
        (has_watchdog_expired(LAST_UPDATE, now) <=> now > hist.svcT + WatchdogUs)

\* a query exactly 100 ms after the serviced edge, answered "not expired"
C2_Witness ==
    /\ hist.updSvc
    /\ now = hist.svcT + WatchdogUs
    /\ polled = <<"expired", 0>>

\* C3: as long as no update edge has been serviced, the watchdog query is true,
\* with or without the time source installed, at any timer reading.
C3_ExpiredBeforeAnyEdge ==
    ~hist.updSvc => has_watchdog_expired(LAST_UPDATE, now)

\* C7: the handles are taken out of GLOBAL_PINS exactly once: from the first
\* handler invocation's take on, GLOBAL_PINS is None and GLOBALS is Some, and
\* the take is executed at most once over all invocations.
C7_HandoffOnce ==
    /\ hist.takes <= 1
    /\ GLOBALS = "Some" => GLOBAL_PINS = "None"
    /\ (hist.irqRuns >= 1 /\ ipc # "take") =>
           (GLOBALS = "Some" /\ GLOBAL_PINS = "None" /\ hist.takes = 1)

\* a second invocation that has passed the is_none() test without taking
C7_Witness ==
    /\ hist.irqRuns = 2
    /\ ipc = "some"
    /\ GLOBALS = "Some"
    /\ GLOBAL_PINS = "None"
    /\ hist.takes = 1

-----------------------------------------------------------------------------
(* Claims about the lights *)

\* C4: when a call of Leds::write has returned, the queue has accepted exactly
\* the seven words of its frame, in program order.
C4_SevenWordsInOrder ==
    lhist.done => lhist.accepted = FrameWords(writer.leds)

\* C5: no word handed to the queue by Leds::write is ever dropped.
C5_NoWordDropped ==
    lhist.dropped = 0

\* C8: a 1 bit holds the pin high for t1+t2 cycles and a 0 bit for t1 cycles;
\* from the rise of a bit to the rise of the next bit there are exactly
\* t1+t2+t3 cycles, within a word and across a word boundary whose next word
\* was queued in time, the last t3 of them low after the bit's t1+t2 window.
C8_BitPeriod ==
    /\ wave.hi.kind = "bit" =>
           wave.hi.len = (IF wave.hi.bit = 1 THEN T1 + T2 ELSE T1)
    /\ wave.per.len # 0 =>
           /\ wave.per.len = T1 + T2 + T3
           /\ wave.per.low - (IF wave.per.bit = 1 THEN 0 ELSE T2) = T3

\* a period that ran across new_data's pull after a 1 bit: low for exactly t3
C8_Witness ==
    /\ wave.per.crossed
    /\ wave.per.bit = 1
    /\ wave.per.low = T3
    /\ wave.per.len = T1 + T2 + T3
    /\ wave.hi.kind = "bit"

\* the low cycles of the reset sequence when the count word is 42
ResetLowCycles == 2 + (1 + 7) * (ResetCountWord + 1)

Val(a) ==
    ByteAt(a, 0) + 256 * ByteAt(a, 8) + 65536 * ByteAt(a, 16)

-----------------------------------------------------------------------------
(* Claims about the pure functions *)

\* C6: the word of a FrontLeds / RearLeds has 0xFF in bits 24-31, high_beam
\* (red) in bits 16-23, low_beam (white) in bits 8-15 and yellow in bits 0-7,
\* so the channels are recovered from it, and converting again gives the same
\* word.
C6_WordLayout ==
    conv.n >= 1 =>
        /\ ByteAt(conv.word, 24) = 255
        /\ ByteAt(conv.word, 16) = conv.high
        /\ ByteAt(conv.word, 8) = conv.mid
        /\ ByteAt(conv.word, 0) = conv.yellow
        /\ conv.word = conv.first

\* a front colour with three different non-zero channels, converted twice
C6_Witness ==
    /\ conv.kind = "front"
    /\ conv.n = 2
    /\ conv.high = 255 /\ conv.mid = 85 /\ conv.yellow = 42
    /\ ByteAt(conv.word, 16) = 255 /\ ByteAt(conv.word, 8) = 85
    /\ ByteAt(conv.word, 0) = 42

\* C10: for every clock rate the computation completes without overflow and
\* yields int_part = floor(f / (871000*22)) and
\* fract_part = floor((f mod (871000*22)) * 256 / (871000*22)).
C10_DivisorExact ==
    /\ div.pc # "panic"
    /\ div.pc = "done" =>
           /\ div.int_part = div.f \div (871000 * 22)
           /\ div.fract_part = ShiftDiv(div.f % (871000 * 22), 871000 * 22, 8)

-----------------------------------------------------------------------------
(* Claims about whole frames *)

\* words the queue has accepted so far, when none was dropped: seven for each
\* completed call of Leds::write and writer.i - 1 of the running one
WordsAccepted ==
    IF writer.pc = "cs"
      THEN 7 * (writer.calls - 1) + (writer.i - 1)
      ELSE 7 * writer.calls

\* words the encoder has pulled so far
WordsPulled == WordsAccepted - Len(tx)

\* words of the current frame the encoder has pulled
PulledOfFrame == WordsPulled % 7

\* C11: as long as every word written has reached the queue, the encoder
\* takes the words of each frame in their roles: at new_data it pulls words 1
\* to 6 of a frame, words 1 to 5 are the ones being serialized as bits, word 6
\* (the zero) sends it to do_stop, the pull of do_stop takes word 7 (the 42) as
\* the count of the reset, which completes with that count, and the encoder is
\* at new_data again with a whole number of frames pulled.
C11_FrameRoles ==
    lhist.dropped = 0 =>
        /\ sm.pc = NEW_DATA => PulledOfFrame \in 0..5
        /\ sm.pc \in {1, 2} => PulledOfFrame \in 1..6
        /\ sm.pc \in 3..WRAP_TARGET => PulledOfFrame \in 1..5
        /\ sm.pc = DO_STOP => PulledOfFrame = 6
        /\ sm.pc \in {11, KEEP_LOOPING, 13, 14} =>
               /\ PulledOfFrame = 0
               /\ WordsPulled > 0
               /\ sm.pc \in {11, KEEP_LOOPING} => wave.cnt = U32(ResetCountWord)
        /\ wave.resets > 0 => wave.lastReset.cnt = U32(ResetCountWord)

\* the first word of the second frame is being serialized, after the first
\* frame's reset, with no word dropped
C11_Witness ==
    /\ lhist.dropped = 0
    /\ writer.calls >= 2
    /\ WordsPulled = 8
    /\ wave.resets >= 1
    /\ sm.pc = 3

-----------------------------------------------------------------------------
(* Claims about the steps of the handler *)

\* C12: servicing a falling edge of a channel goes read, reset, clear, publish:
\* the handler reaches the reset only from the read, with count holding the
\* counter; the clear only from the reset, with the counter at 0; the store
\* only from the clear, with the flag down; the flag goes down in no other
\* step, and the published width changes only in the store, to count.
C12_ServiceOrder ==
    [][\A c \in Channels :
          /\ (ipc' = "reset_" \o c /\ ipc' # ipc) =>
                 (ipc = "read_" \o c /\ count' = counter[c])
          /\ (ipc' = "clear_" \o c /\ ipc' # ipc) =>
                 (ipc = "reset_" \o c /\ counter'[c] = 0)
          /\ (ipc' = "store_" \o c /\ ipc' # ipc) =>
                 (ipc = "clear_" \o c /\ edgeLow[c] /\ ~edgeLow'[c])
          /\ (edgeLow[c] /\ ~edgeLow'[c]) => ipc = "clear_" \o c
          /\ Width(c)' # Width(c) =>
                 (ipc = "store_" \o c /\ Width(c)' = count)]_vars

\* a width of 1200 ticks has just been published: counter reset, flag cleared
C12_Witness ==
    /\ ipc = "status_throttle"
    /\ hist.pubN["steering"] = 1200
    /\ STEERING = 1200
    /\ counter["steering"] = 0
    /\ ~edgeLow["steering"]

\* the positions of the handler while it services pin p
Servicing(p) ==
    IF p = "update"
      THEN {"stamp_update", "clear_update"}
      ELSE {"read_" \o p, "reset_" \o p, "clear_" \o p, "store_" \o p}

Other(c) == IF c = "steering" THEN "throttle" ELSE "steering"

\* C13: a step of the handler servicing a channel's edge leaves the other
\* channel's width, counter and flag and the watchdog's pair as they are; a
\* step servicing an update edge leaves both widths and both counters as they
\* are; and a channel on which no falling edge has occurred still has its
\* initial width 0.
C13_OnlyOwnState ==
    /\ [](\A c \in Channels : hist.edges[c] = 0 => Width(c) = 0)
    /\ [][\A c \in Channels :
             /\ (ipc \in Servicing(c) /\ ipc' # ipc) =>
                    /\ Width(Other(c))' = Width(Other(c))
                    /\ counter'[Other(c)] = counter[Other(c)]
                    /\ edgeLow'[Other(c)] = edgeLow[Other(c)]
                    /\ edgeLow'["update"] = edgeLow["update"]
                    /\ LAST_UPDATE' = LAST_UPDATE
             /\ (ipc \in Servicing("update") /\ ipc' # ipc) =>
                    /\ Width(c)' = Width(c)
                    /\ counter'[c] = counter[c]
                    /\ edgeLow'[c] = edgeLow[c]]_vars

\* steering has published 1200 ticks and an update edge has been stamped while
\* throttle, high and counting but never fallen, still reads 0
C13_Witness ==
    /\ hist.edges["throttle"] = 0
    /\ counter["throttle"] = 50
    /\ THROTTLE = 0
    /\ STEERING = 1200
    /\ hist.pubN["steering"] = 1200
    /\ hist.updSvc

-----------------------------------------------------------------------------
(* Claims about the bits of a word *)

\* C14: the bit pulses started since new_data pulled a non-zero word are that
\* word's bits 0, 1, 2, ... in this order, never more than 24 of them (bits
\* 24-31 are not emitted), and the encoder leaves the bit loop for the next
\* pull only when all 24 have been emitted.
C14_Bits0To23 ==
    /\ Len(wave.bits) <= PullThreshold
    /\ \A i \in 1..Len(wave.bits) : wave.bits[i] = wave.word[i]
    /\ (sm.pc \in {NEW_DATA, WRAP_TARGET} /\ ~IsZero(wave.word)) =>
           Len(wave.bits) = PullThreshold
    /\ sm.pc \in {1, 2, 3, 4} => Len(wave.bits) = 0
    /\ sm.pc \in {DO_STOP, 11, KEEP_LOOPING, 13, 14} =>
           (IsZero(wave.word) /\ wave.bits = <<>>)

\* all 24 bits of the word of FrontLeds {yellow 1, low_beam 2, high_beam 128}
\* have gone out, yellow's bit 0 first and high_beam's bit 7 last
C14_Witness ==
    /\ sm.pc = WRAP_TARGET
    /\ wave.word = FrontLedsIntoU32(FrontLeds(1, 2, 128))
    /\ Len(wave.bits) = 24
    /\ wave.bits[1] = 1 /\ wave.bits[2] = 0
    /\ wave.bits[10] = 1
    /\ wave.bits[24] = 1 /\ wave.bits[23] = 0

-----------------------------------------------------------------------------
(* Claims about progress *)

\* C15: while every word written has reached the queue: once a call of
\* Leds::write has returned, the encoder eventually waits at new_data with
\* the queue empty; the encoder at do_stop eventually leaves do_stop; and a
\* call of Leds::write eventually returns.
C15_FrameDrained ==
    /\ (lhist.done /\ lhist.dropped = 0) ~>
           ((sm.pc = NEW_DATA /\ tx = <<>>) \/ lhist.dropped > 0)
    /\ (sm.pc = DO_STOP /\ lhist.dropped = 0) ~>
           (sm.pc # DO_STOP \/ lhist.dropped > 0)
    /\ (writer.pc = "cs" /\ lhist.dropped = 0) ~>
           (writer.pc = "idle" \/ lhist.dropped > 0)

\* two whole frames written and consumed, the encoder idle at new_data again
C15_Witness ==
    /\ lhist.done
    /\ lhist.dropped = 0
    /\ writer.calls = 2
    /\ WordsPulled = 14
    /\ tx = <<>>
    /\ sm.pc = NEW_DATA
    /\ wave.resets = 2

-----------------------------------------------------------------------------
(* Claims about the critical sections *)

\* positions of main and of the handler inside a critical section
MainInCs ==
    mpc \in {"install_lu", "install_lu_w", "install_gp", "install_gp_w", "install_exit",
             "wd_borrow", "wd_read", "wd_drop", "wd_exit"}

IrqInCs ==
    ipc \in {"take_borrow", "take_move", "take_exit",
             "stamp_borrow", "stamp_write", "stamp_drop", "stamp_exit"}

\* C16: no borrow of LAST_UPDATE or GLOBAL_PINS ever fails or overlaps another
\* one; a cell is borrowed only inside a critical section; critical sections
\* are not nested; and the handler does not run while main is inside one.
C16_NoBorrowOverlap ==
    /\ ~cells.failed
    /\ mpc # "panic" /\ ipc # "panic"
    /\ cells.LAST_UPDATE \in {-1, 0, 1}
    /\ cells.GLOBAL_PINS \in {-1, 0}
    /\ (cells.LAST_UPDATE # 0 \/ cells.GLOBAL_PINS # 0) => csDepth = 1
    /\ csDepth = (IF MainInCs \/ IrqInCs THEN 1 ELSE 0)
    /\ MainInCs => ipc = "idle"

\* main holds the borrow of LAST_UPDATE inside has_watchdog_expired while an
\* update edge is pending and the interrupt unmasked; the handler has stamped
\* an earlier edge
C16_Witness ==
    /\ mpc = "wd_read"
    /\ cells.LAST_UPDATE = 1
    /\ irqUnmasked
    /\ edgeLow["update"]
    /\ ipc = "idle"
    /\ hist.updSvc

-----------------------------------------------------------------------------
(* Claims about the handler as a whole *)

\* C17: the interrupt is unmasked only with the handles stored; past the lazy
\* take every invocation has GLOBALS = Some; and no invocation returns while
\* a flag it found pending is still not cleared.
C17_HandlesAndFlags ==
    /\ irqUnmasked => (GLOBAL_PINS = "Some" \/ GLOBALS = "Some")
    /\ ipc \notin {"idle", "take"} => GLOBALS = "Some"
    /\ ~hist.leftPending
    /\ ipc = "idle" => hist.unacked = {}
    /\ \A p \in hist.unacked : edgeLow[p]

\* the second invocation has returned after a steering edge of 1200 ticks was
\* published and an update edge stamped, and no flag is pending
C17_Witness ==
    /\ ipc = "idle"
    /\ hist.irqRuns = 2
    /\ GLOBALS = "Some"
    /\ hist.pubN["steering"] = 1200
    /\ hist.updSvc
    /\ \A p \in Pins : ~edgeLow[p]
    /\ hist.edges["steering"] >= 1 /\ hist.edges["update"] >= 1

-----------------------------------------------------------------------------
(* Claims about values *)

\* C18: the word of a FrontLeds or RearLeds is never the zero sentinel, for
\* any channel values: the encoder's test at new_data (jmp !x, taken when the
\* word is zero) does not send it to do_stop.
C18_FixtureWordNonZero ==
    conv.n >= 1 => (~IsZero(conv.word) /\ conv.word[32] = 1)

\* a rear colour with all channels 0, converted: the word is the bare header
C18_Witness ==
    /\ conv.kind = "rear"
    /\ conv.n >= 1
    /\ conv.yellow = 0 /\ conv.mid = 0 /\ conv.high = 0
    /\ conv.word = HeaderWord

\* C19: whenever the time source is installed, last_update is at most the
\* timer's reading, so current - last_update in has_watchdog_expired does not
\* underflow.
C19_StampNotAhead ==
    LAST_UPDATE.timer => (LAST_UPDATE.last_update <= now /\ LAST_UPDATE.last_update >= 0)

\* a stamp taken at a reading above 0, the timer beyond it, a query answered
C19_Witness ==
    /\ LAST_UPDATE.timer
    /\ hist.updSvc
    /\ LAST_UPDATE.last_update >= WatchdogUs \div 2
    /\ now > LAST_UPDATE.last_update
    /\ polled = <<"expired", 0>>


====
